---- MODULE Spec2Model ----
(***************************************************************************)
(* Model of the credential core of the GDP MCP server:                     *)
(*   keystore.py  - the persisted API-key store (issue/validate/list/      *)
(*                  revoke) behind a process-wide lock,                    *)
(*   server.py    - APIKeyMiddleware.dispatch and the admin handlers,      *)
(*   auth.py      - GDPAuth, the cached OAuth token,                       *)
(*   client.py    - GDPClient.request, the retry-once-on-401 transport.    *)
(*                                                                         *)
(* Strings are sequences of one-character strings; the scheme prefix       *)
(* "Bearer " of the Authorization header is one symbol of the alphabet.    *)
(* The specifications of the module:                                        *)
(*   Spec      - the key store, one action per call;                       *)
(*   SpecGateway - the same store behind the HTTP gateway, one action per  *)
(*               request;                                                  *)
(*   SpecStore - the key store on any document at its path, with writes    *)
(*               that can fail;                                            *)
(*   SpecLock  - key-store calls of concurrent threads, one step per       *)
(*               statement of the critical section;                        *)
(*   SpecLockFair - SpecLock with validate_key calls and failing writes,   *)
(*               every thread scheduled;                                   *)
(*   SpecAuth  - get_token and invalidate called by concurrent tasks;      *)
(*   SpecClient- concurrent GDPClient.request tasks over one GDPAuth,      *)
(*               suspended at each await of a network call.                *)
(***************************************************************************)
EXTENDS Integers, Sequences, FiniteSets, TLC

VARIABLES
    file,       \* the document at KEY_STORE_PATH
    hist,       \* history: keys issued, revoke calls made (observation only)
    resp,       \* the last call or request and what it returned (observation only)
    lock,       \* keystore._lock: the thread holding it, 0 when free
    th,         \* per thread: the key-store call it is in and its local variables
    serial,     \* the calls so far applied one at a time (observation only)
    auth,       \* GDPAuth: _token (NoToken for None) and _expires_at
    time,       \* time.time()
    minted,     \* tokens the token endpoint has issued so far
    task,       \* per task: where its GDPClient.request call is, its locals
    got,        \* the last get_token call (observation only)
    acq         \* the last completed acquisition (observation only)

ksVars == <<file, hist, resp>>
lkVars == <<lock, th, serial>>
tkVars == <<auth, time, minted, task, got, acq>>

----------------------------------------------------------------------------
(* Program constants *)

KeyBytes == 32          \* secrets.token_hex(32)
PrefixLen == 8          \* raw_key[:8]
KeyLen == 2 * KeyBytes  \* token_hex renders two hex digits per byte
DefaultExpiresIn == 300 \* data.get("expires_in", 300)
RefreshSkew == 30       \* time.time() + expires_in - 30

(* Bounds of the model *)
MaxIssued == 2          \* generate_key calls in one behaviour
NThreads == 2           \* threads calling the key store concurrently
NTasks == 2             \* GDPClient.request calls in flight at once
MaxMinted == 2          \* tokens the token endpoint issues in one behaviour
MaxTime == 300          \* the clock stops here

----------------------------------------------------------------------------
(* Values *)

None == <<>>
Some(x) == <<x>>

Range(s) == {s[i] : i \in 1..Len(s)}

Min(S) == CHOOSE x \in S : \A y \in S : x <= y

\* A string of n copies of the character c.
Rep(c, n) == [i \in 1..n |-> c]

\* The raw keys secrets.token_hex can return in this model: K1 and K2 share
\* their first PrefixLen characters, K3 does not.
K1 == Rep("a", PrefixLen) \o Rep("1", KeyLen - PrefixLen)
K2 == Rep("a", PrefixLen) \o Rep("2", KeyLen - PrefixLen)
K3 == Rep("b", PrefixLen) \o Rep("3", KeyLen - PrefixLen)
KeyPool == {K1, K2, K3}

\* Users named in generate_key calls.
Users == {<<"u">>, <<"v">>}


----------------------------------------------------------------------------
(* keystore.py *)

\* HashKey that leaves the key as it is.
HashKeyPlain(raw_key) == raw_key

\* hashlib.sha256(raw_key.encode()).hexdigest(): one-way and, for the keys
\* of the model, free of collisions.
HashKey(raw_key) == <<"sha256:">> \o raw_key

KeyPrefix(raw_key) ==
    IF Len(raw_key) <= PrefixLen THEN raw_key ELSE SubSeq(raw_key, 1, PrefixLen)

\* The document on disk: absent, a JSON object with its "keys" mapping (an
\* insertion-ordered sequence of [hash, meta] entries), or malformed text.
AbsentFile == [kind |-> "absent", keys |-> <<>>]
ObjectFile(keys) == [kind |-> "object", keys |-> keys]

\* Other documents _load_store can meet: text that is no JSON (an empty or
\* truncated file included), a file open() cannot read, a JSON object
\* without "keys", a JSON array, a JSON null or number.
MalformedFile == [kind |-> "malformed", keys |-> <<>>]
UnreadableFile == [kind |-> "unreadable", keys |-> <<>>]
NoKeysFile == [kind |-> "nokeys", keys |-> <<>>]
ArrayFile == [kind |-> "array", keys |-> <<>>]
ScalarFile == [kind |-> "scalar", keys |-> <<>>]

\* _load_store, lines 44-48: json.load returns a list, None or a number;
\* '"keys" not in data' (None, number) or 'data["keys"] = {}' (list) raises
\* TypeError, which the except clause of line 49 does not name.
LoadRaises(f) == f.kind \in {"array", "scalar"}

\* The "keys" mapping of the store _load_store returns when it returns.
LoadStore(f) ==
    IF f.kind = "absent" THEN <<>>
    ELSE IF f.kind = "object" THEN f.keys
    ELSE <<>>   \* no "keys": set to {}; JSONDecodeError / IOError: logged, empty store

SaveStore(store) == ObjectFile(store)

\* dict operations on the ordered "keys" mapping
DictIndex(keys, h) ==
    LET I == {i \in 1..Len(keys) : keys[i].hash = h}
    IN  IF I = {} THEN 0 ELSE Min(I)

DictGet(keys, h) ==
    IF DictIndex(keys, h) = 0 THEN None ELSE Some(keys[DictIndex(keys, h)].meta)

DictSet(keys, h, meta) ==
    IF DictIndex(keys, h) = 0
    THEN Append(keys, [hash |-> h, meta |-> meta])
    ELSE [keys EXCEPT ![DictIndex(keys, h)] = [hash |-> h, meta |-> meta]]

DictDel(keys, i) == SubSeq(keys, 1, i - 1) \o SubSeq(keys, i + 1, Len(keys))

\* generate_key(user) with raw_key = secrets.token_hex(32) and now as drawn.
\* Returns the document written and the dict returned.
GenerateKey(f, raw_key, user, now) ==
    LET hashed == HashKey(raw_key)
        prefix == KeyPrefix(raw_key)
        store == DictSet(LoadStore(f), hashed,
                         [user |-> user, created |-> now, key_prefix |-> prefix])
    IN  [file |-> SaveStore(store),
         result |-> [key |-> raw_key, user |-> user, created |-> now,
                     key_prefix |-> prefix]]

\* ValidateKey looking the key up by its prefix instead of its digest.
ValidateKeyByPrefix(f, raw_key) ==
    LET store == LoadStore(f)
        I == {i \in 1..Len(store) : store[i].meta.key_prefix = KeyPrefix(raw_key)}
    IN  IF raw_key = <<>> \/ I = {} THEN None ELSE Some(store[Min(I)].meta)

ValidateKey(f, raw_key) ==
    IF raw_key = <<>> THEN None
    ELSE DictGet(LoadStore(f), HashKey(raw_key))

\* ListKeys returning each record together with the digest it is stored
\* under.
ListKeysWithHash(f) ==
    LET store == LoadStore(f)
    IN  [i \in 1..Len(store) |->
            [key_prefix |-> store[i].meta.key_prefix,
             user |-> store[i].meta.user,
             created |-> store[i].meta.created,
             hash |-> store[i].hash]]

ListKeys(f) ==
    LET store == LoadStore(f)
    IN  [i \in 1..Len(store) |->
            [key_prefix |-> store[i].meta.key_prefix,
             user |-> store[i].meta.user,
             created |-> store[i].meta.created]]

\* RevokeTarget with the comparison of the prefix lost: the scan stops at the
\* first record.
RevokeTargetFirst(store, key_prefix) == IF store = <<>> THEN 0 ELSE 1

\* RevokeTarget without the break: the scan ends on the last match.
RevokeTargetLast(store, key_prefix) ==
    LET I == {i \in 1..Len(store) : store[i].meta.key_prefix = key_prefix}
    IN  IF I = {} THEN 0 ELSE CHOOSE i \in I : \A j \in I : j <= i

\* Index of the record revoke_key's scan stops at (0: no record matches).
RevokeTarget(store, key_prefix) ==
    LET I == {i \in 1..Len(store) : store[i].meta.key_prefix = key_prefix}
    IN  IF I = {} THEN 0 ELSE Min(I)

\* RevokeKey calling _save_store when no record matches, too.
RevokeKeyAlwaysSaves(f, key_prefix) ==
    LET store == LoadStore(f)
        t == RevokeTarget(store, key_prefix)
    IN  IF t = 0
        THEN [file |-> SaveStore(store), result |-> None, saved |-> TRUE]
        ELSE [file |-> SaveStore(DictDel(store, t)),
              result |-> Some([status |-> "revoked", key_prefix |-> key_prefix,
                               user |-> store[t].meta.user]),
              saved |-> TRUE]

\* revoke_key(key_prefix): the document left on disk, the value returned and
\* whether _save_store was called.
RevokeKey(f, key_prefix) ==
    LET store == LoadStore(f)
        t == RevokeTarget(store, key_prefix)
    IN  IF t = 0
        THEN [file |-> f, result |-> None, saved |-> FALSE]
        ELSE [file |-> SaveStore(DictDel(store, t)),
              result |-> Some([status |-> "revoked", key_prefix |-> key_prefix,
                               user |-> store[t].meta.user]),
              saved |-> TRUE]

HasAnyKeys(f) == Len(LoadStore(f)) > 0

\* How _save_store can end: "none" - it returns; "open" - mkdir or
\* open(path, "w") raises (permission denied) and the document is untouched;
\* "write" - open(path, "w") has truncated the document and json.dump or the
\* close raises (disk full), leaving truncated text; "chmod" - the document
\* is written and os.chmod raises.  Each error is an OSError, logged and
\* re-raised.
SaveFaults == {"none", "open", "write", "chmod"}

\* _save_store(store) on document f ending with the given fault.
SaveStoreOutcome(f, store, fault) ==
    [file |-> IF fault = "open" THEN f
              ELSE IF fault = "write" THEN MalformedFile
              ELSE SaveStore(store),
     raised |-> fault # "none"]

\* What a key-store call leaves: the document, the value returned (None when
\* it raised), whether it raised, whether _load_store raised, whether
\* _save_store raised.
Outcome(f, result, load_raised, save_raised) ==
    [file |-> f, result |-> result, raised |-> load_raised \/ save_raised,
     load_raised |-> load_raised, save_raised |-> save_raised]

\* generate_key on any document, with _save_store ending in fault
TryGenerateKey(f, raw_key, user, now, fault) ==
    IF LoadRaises(f) THEN Outcome(f, None, TRUE, FALSE)
    ELSE LET g == GenerateKey(f, raw_key, user, now)
             w == SaveStoreOutcome(f, LoadStore(g.file), fault)
         IN  IF w.raised THEN Outcome(w.file, None, FALSE, TRUE)
             ELSE Outcome(w.file, Some(g.result), FALSE, FALSE)

\* revoke_key on any document, with _save_store (if called) ending in fault
TryRevokeKey(f, key_prefix, fault) ==
    IF LoadRaises(f) THEN Outcome(f, None, TRUE, FALSE)
    ELSE LET r == RevokeKey(f, key_prefix)
             w == SaveStoreOutcome(f, LoadStore(r.file), fault)
         IN  IF ~r.saved THEN Outcome(f, None, FALSE, FALSE)
             ELSE IF w.raised THEN Outcome(w.file, None, FALSE, TRUE)
             ELSE Outcome(w.file, r.result, FALSE, FALSE)

\* validate_key on any document: the empty string returns before the load
TryValidateKey(f, raw_key) ==
    IF raw_key # <<>> /\ LoadRaises(f) THEN Outcome(f, None, TRUE, FALSE)
    ELSE Outcome(f, ValidateKey(f, raw_key), FALSE, FALSE)

TryListKeys(f) ==
    IF LoadRaises(f) THEN Outcome(f, None, TRUE, FALSE)
    ELSE Outcome(f, ListKeys(f), FALSE, FALSE)

\* TryHasAnyKeys writing the store it loaded back when the document is not
\* a store object.
TryHasAnyKeysRepairs(f) ==
    IF LoadRaises(f) THEN Outcome(f, None, TRUE, FALSE)
    ELSE Outcome(IF f.kind = "object" THEN f ELSE SaveStore(LoadStore(f)),
                 HasAnyKeys(f), FALSE, FALSE)

TryHasAnyKeys(f) ==
    IF LoadRaises(f) THEN Outcome(f, None, TRUE, FALSE)
    ELSE Outcome(f, HasAnyKeys(f), FALSE, FALSE)

----------------------------------------------------------------------------
(* str methods used by server.py *)

RECURSIVE LStrip(_)
LStrip(s) == IF s # <<>> /\ Head(s) = " " THEN LStrip(Tail(s)) ELSE s

RECURSIVE RStrip(_)
RStrip(s) ==
    IF s # <<>> /\ s[Len(s)] = " " THEN RStrip(SubSeq(s, 1, Len(s) - 1)) ELSE s

\* str.strip()
Strip(s) == RStrip(LStrip(s))

\* str.startswith(pre)
StartsWith(s, pre) == Len(s) >= Len(pre) /\ SubSeq(s, 1, Len(pre)) = pre

\* str.removeprefix(pre)
RemovePrefix(s, pre) ==
    IF StartsWith(s, pre) THEN SubSeq(s, Len(pre) + 1, Len(s)) ELSE s

----------------------------------------------------------------------------
(* server.py: requests *)

Bearer == <<"Bearer ">>

\* URL paths, cut so that "/admin" and "/health" are symbols of their own.
HealthPath == <<"/health">>
SsePath == <<"/sse">>
AdminKeysPath == <<"/admin", "/keys">>
AdminKeyPath(key_prefix) == <<"/admin", "/keys/">> \o key_prefix

\* request.path_params["key_prefix"] of Route("/admin/keys/{key_prefix}")
PathParam(path) == SubSeq(path, 3, Len(path))

AdminAllowedIps == {"127.0.0.1", "::1", "localhost", "172.17.0.1"}

\* request.client.host; NoClient when request.client is None
NoClient == "<no client>"
Hosts == AdminAllowedIps \cup {"10.0.0.5", NoClient}

\* Credentials a caller may put in the Authorization header: issued or
\* issuable keys, nothing, a key prefix, a 64-character string never issued.
Creds == {K1, K3, <<>>, KeyPrefix(K1), Rep("f", KeyLen)}

\* Authorization header values; <<>> is the absent header.
Headers ==
    {pre \o c \o w : pre \in {<<>>, Bearer, <<" ">> \o Bearer, Bearer \o <<" ">>},
                     c \in Creds, w \in {<<>>, <<" ">>}}

\* JSON bodies of POST /admin/keys: not JSON, or an object with a user field.
NoBody == [json |-> FALSE, user |-> <<>>]
Bodies ==
    {NoBody} \cup {[json |-> TRUE, user |-> u] : u \in {<<" ">>, <<" ", "v", " ">>}}

\* Arguments of revoke_key.
RevokeArgs == {KeyPrefix(K1), KeyPrefix(K3), <<>>, K1}

ProtectedRequests ==
    {[path |-> SsePath, method |-> "GET", host |-> "10.0.0.5", auth |-> a,
      body |-> NoBody] : a \in Headers}
    \cup
    {[path |-> p, method |-> "GET", host |-> "127.0.0.1", auth |-> a,
      body |-> NoBody] :
        p \in {<<"/messages/">>, <<"/health", "/">>}, a \in {<<>>, Bearer \o K1}}

HealthRequests ==
    {[path |-> HealthPath, method |-> "GET", host |-> h, auth |-> a,
      body |-> NoBody] :
        h \in {"10.0.0.5", "127.0.0.1", NoClient},
        a \in {<<>>, Bearer \o K1, Bearer \o Rep("f", KeyLen)}}

\* Who calls the admin routes: every address with no header, and two with one.
AdminCallers ==
    {[host |-> h, auth |-> <<>>] : h \in Hosts}
    \cup {[host |-> "10.0.0.5", auth |-> Bearer \o K1],
          [host |-> "::1", auth |-> Bearer \o Rep("f", KeyLen)]}

AdminRequests ==
    {[path |-> AdminKeysPath, method |-> "POST", host |-> c.host,
      auth |-> c.auth, body |-> b] : c \in AdminCallers, b \in Bodies}
    \cup
    {[path |-> AdminKeysPath, method |-> "GET", host |-> c.host,
      auth |-> c.auth, body |-> NoBody] : c \in AdminCallers}
    \cup
    {[path |-> AdminKeyPath(k), method |-> "DELETE", host |-> c.host,
      auth |-> c.auth, body |-> NoBody] :
        c \in AdminCallers, k \in {KeyPrefix(K1), KeyPrefix(K3)}}

Requests == ProtectedRequests \cup HealthRequests \cup AdminRequests

----------------------------------------------------------------------------
(* server.py: handlers.  Each returns the response status, whether the      *)
(* middleware forwarded the request (call_next), the key-store functions    *)
(* called, the document left on disk and the response body.                 *)

Reply(status, ksops, f, body) ==
    [status |-> status, forwarded |-> TRUE, ksops |-> ksops, file |-> f,
     body |-> body]

\* IsLocalhost without the container-host gateway address.
IsLocalhostLoopbackOnly(req) == req.host \in {"127.0.0.1", "::1", "localhost"}

IsLocalhost(req) == req.host \in AdminAllowedIps

Forbidden(f) == Reply(403, <<>>, f, <<"Forbidden">>)

AdminCreateKey(req, f, raw_key, now) ==
    IF ~IsLocalhost(req) THEN Forbidden(f)
    ELSE LET user == IF req.body.json THEN Strip(req.body.user) ELSE <<>>
         IN  IF user = <<>>
             THEN Reply(400, <<>>, f, <<"Bad Request">>)
             ELSE LET g == GenerateKey(f, raw_key, user, now)
                  IN  Reply(201, <<"generate_key">>, g.file, <<g.result>>)

AdminListKeys(req, f) ==
    IF ~IsLocalhost(req) THEN Forbidden(f)
    ELSE Reply(200, <<"list_keys">>, f, ListKeys(f))

AdminRevokeKey(req, f) ==
    IF ~IsLocalhost(req) THEN Forbidden(f)
    ELSE LET r == RevokeKey(f, PathParam(req.path))
         IN  IF r.result = None
             THEN Reply(404, <<"revoke_key">>, r.file, <<"Not Found">>)
             ELSE Reply(200, <<"revoke_key">>, r.file, r.result)

Health(req, f) ==
    Reply(200, <<"list_keys">>, f, <<[active_keys |-> Len(ListKeys(f))]>>)

\* handle_sse and the /messages/ mount: the MCP transport, past the gateway.
HandleSse(req, f) == Reply(200, <<>>, f, <<"mcp">>)

\* call_next(request): the route table of _create_sse_app
CallNext(req, f, raw_key, now) ==
    IF req.path = HealthPath THEN Health(req, f)
    ELSE IF req.path = AdminKeysPath /\ req.method = "POST"
         THEN AdminCreateKey(req, f, raw_key, now)
    ELSE IF req.path = AdminKeysPath /\ req.method = "GET"
         THEN AdminListKeys(req, f)
    ELSE IF StartsWith(req.path, <<"/admin", "/keys/">>) /\ req.method = "DELETE"
         THEN AdminRevokeKey(req, f)
    ELSE HandleSse(req, f)

Unauthorized(f) ==
    [status |-> 401, forwarded |-> FALSE, ksops |-> <<"validate_key">>,
     file |-> f, body |-> <<"Unauthorized">>]

\* BearerToken without the strip().
BearerTokenNoStrip(auth_header) == RemovePrefix(auth_header, Bearer)

\* The credential APIKeyMiddleware.dispatch hands to validate_key.
BearerToken(auth_header) == Strip(RemovePrefix(auth_header, Bearer))

\* Dispatch without the branch of line 66: the health route is checked like
\* any protected route.
DispatchNoHealthBypass(req, f, raw_key, now) ==
    IF StartsWith(req.path, <<"/admin">>) THEN CallNext(req, f, raw_key, now)
    ELSE LET key_info == ValidateKey(f, BearerToken(req.auth))
         IN  IF key_info = None
             THEN Unauthorized(f)
             ELSE LET n == CallNext(req, f, raw_key, now)
                  IN  [n EXCEPT !.ksops = <<"validate_key">> \o @]

\* APIKeyMiddleware.dispatch
Dispatch(req, f, raw_key, now) ==
    IF req.path = HealthPath THEN CallNext(req, f, raw_key, now)
    ELSE IF StartsWith(req.path, <<"/admin">>) THEN CallNext(req, f, raw_key, now)
    ELSE LET key_info == ValidateKey(f, BearerToken(req.auth))
         IN  IF key_info = None
             THEN Unauthorized(f)
             ELSE LET n == CallNext(req, f, raw_key, now)
                  IN  [n EXCEPT !.ksops = <<"validate_key">> \o @]

----------------------------------------------------------------------------
(* History of the key store, kept for stating properties *)

IssuedKeys == {r.key : r \in hist.issued}

\* The user the raw key k was issued to.
IssuedUser(k) == (CHOOSE r \in hist.issued : r.key = k).user

Hashes(f) == {LoadStore(f)[i].hash : i \in 1..Len(LoadStore(f))}

\* secrets.token_hex(32) returns 256 random bits: a value it has returned
\* before does not come again.
CanIssue(raw_key) ==
    /\ raw_key \notin IssuedKeys
    /\ Cardinality(IssuedKeys) < MaxIssued

HistGenerate(h, raw_key, user) ==
    [h EXCEPT !.issued = @ \cup {[key |-> raw_key, user |-> user]}]

\* A revoke_key(key_prefix) call on document f: the issued keys whose prefix
\* the argument equals are marked, and those whose record it removed.
HistRevoke(h, f, key_prefix) ==
    [h EXCEPT
        !.named = @ \cup {k \in IssuedKeys : KeyPrefix(k) = key_prefix},
        !.revoked = @ \cup {k \in IssuedKeys :
                               /\ HashKey(k) \in Hashes(f)
                               /\ HashKey(k) \notin Hashes(RevokeKey(f, key_prefix).file)}]

----------------------------------------------------------------------------
(* auth.py: GDPAuth *)

NoToken == 0

\* GDPAuth.__init__
NewAuth == [token |-> NoToken, expires_at |-> 0]

\* get_token, line 23: if self._token and time.time() < self._expires_at
TokenIsCached(a, t) == a.token # NoToken /\ t < a.expires_at

\* A reply of the token endpoint: a failure (network error, non-2xx status,
\* a body that is no JSON object or lacks access_token), or a JSON object
\* with access_token and an expires_in that is absent, a number, or a
\* string.
TokenReplies ==
    {[ok |-> FALSE, expiry |-> "absent", expires_in |-> 0]}
    \cup {[ok |-> TRUE, expiry |-> "absent", expires_in |-> 0]}
    \cup {[ok |-> TRUE, expiry |-> "number", expires_in |-> e] : e \in {10, 150}}
    \cup {[ok |-> TRUE, expiry |-> "string", expires_in |-> 0]}

\* data.get("expires_in", 300)
ExpiresIn(reply) ==
    IF reply.expiry = "absent" THEN DefaultExpiresIn ELSE reply.expires_in

\* AcquireToken without the refresh skew.
AcquireTokenNoSkew(a, t, reply, tok) ==
    IF ~reply.ok THEN [auth |-> a, raised |-> TRUE]
    ELSE IF reply.expiry = "string"
         THEN [auth |-> [a EXCEPT !.token = tok], raised |-> TRUE]
         ELSE [auth |-> [token |-> tok, expires_at |-> t + ExpiresIn(reply)],
               raised |-> FALSE]

\* _acquire_token, lines 44-49, on the reply received at time t carrying the
\* access token tok: the GDPAuth left behind and whether the call raised.
AcquireToken(a, t, reply, tok) ==
    IF ~reply.ok THEN [auth |-> a, raised |-> TRUE]
    ELSE IF reply.expiry = "string"
         THEN [auth |-> [a EXCEPT !.token = tok], raised |-> TRUE]
         ELSE [auth |-> [token |-> tok,
                         expires_at |-> t + ExpiresIn(reply) - RefreshSkew],
               raised |-> FALSE]

\* Invalidate that clears nothing.
InvalidateNothing(a) == a

\* Invalidate that clears the token and keeps _expires_at.
InvalidateKeepsExpiry(a) == [a EXCEPT !.token = NoToken]

\* GDPAuth.invalidate
Invalidate(a) == [token |-> NoToken, expires_at |-> 0]

----------------------------------------------------------------------------
(* SpecAuth: get_token and invalidate called by concurrent tasks, each      *)
(* suspended only while the token endpoint is asked.                        *)

Tasks == 1..NTasks

\* token: the local variable of request; attempts, first, last, before:
\* observation only (HTTP attempts sent, the outcomes of the first and of
\* the latest attempt, the token the first attempt carried).
Pending == [done |-> FALSE, ok |-> FALSE, status |-> 0, attempt |-> 0]

\* call: the arguments of request; sent1, sent2: the HTTP attempts as sent;
\* mark (observation only): how many tokens the token endpoint had issued
\* when the first attempt came back 401; left (observation only): the pair
\* of GDPAuth when get_token raised.
NoClientCall == [method |-> "", resource_name |-> "", params |-> ""]

NoAttempt == [method |-> "", url |-> <<>>, via |-> "", params |-> "",
              token |-> NoToken]

IdleTask == [pc |-> "idle", token |-> NoToken, attempts |-> 0, first |-> 0,
             last |-> 0, before |-> NoToken, result |-> Pending,
             call |-> NoClientCall, mark |-> 0,
             sent1 |-> NoAttempt, sent2 |-> NoAttempt, left |-> NewAuth]

\* The last completed acquisition not followed by an invalidate: when it
\* completed, the reply it read and the token the reply carried.  cleared:
\* invalidate has been called and no get_token call has begun since.
NoAcq == [valid |-> FALSE, at |-> 0, expiry |-> "absent", expires_in |-> 0,
          cleared |-> FALSE, token |-> NoToken]

\* The last get_token call or return: a call records whether the cache
\* served it and the acquisition then in force; a return records the token
\* returned and the _expires_at stored with it; an acquisition that raised
\* records the pair it found (held) and the pair it left (token,
\* expires_at); an invalidate call records the tasks that were waiting for
\* the token endpoint when it was called (asked).
NoGot == [task |-> 0, at |-> 0, called |-> FALSE, cached |-> FALSE,
          returned |-> FALSE, token |-> NoToken, expires_at |-> 0,
          expiry |-> "absent", expires_in |-> 0, acq |-> NoAcq,
          raised |-> FALSE, held |-> NewAuth,
          invalidated |-> FALSE, asked |-> {}]

\* The tasks whose request to the token endpoint is in flight.
Asking == {r \in Tasks : task[r].pc = "get_token"}

TkIdle ==
    /\ auth = NewAuth
    /\ time = 0
    /\ minted = 0
    /\ task = [r \in Tasks |-> IdleTask]
    /\ got = NoGot
    /\ acq = NoAcq

\* get_token, lines 23-25, up to the await: the cached token is returned, or
\* the token endpoint is asked.  got records the call: when it was made,
\* whether the cache served it, and the acquisition then in force.
CallGetToken(r) ==
    /\ task[r].pc = "idle"
    /\ IF TokenIsCached(auth, time)
       THEN /\ got' = [NoGot EXCEPT !.task = r, !.at = time, !.called = TRUE,
                          !.cached = TRUE, !.returned = TRUE,
                          !.token = auth.token,
                          !.expires_at = auth.expires_at, !.acq = acq]
            /\ UNCHANGED task
       ELSE /\ got' = [NoGot EXCEPT !.task = r, !.at = time, !.called = TRUE,
                          !.acq = acq]
            /\ task' = [task EXCEPT ![r].pc = "get_token"]
    /\ acq' = [acq EXCEPT !.cleared = FALSE]
    /\ UNCHANGED <<auth, time, minted, ksVars, lkVars>>

\* The token endpoint answers: _acquire_token resumes and returns the new
\* token or raises.
AuthTokenReply(r, reply) ==
    /\ task[r].pc = "get_token"
    /\ reply.ok => minted < MaxMinted
    /\ LET a == AcquireToken(auth, time, reply, minted + 1)
       IN  /\ auth' = a.auth
           /\ minted' = IF reply.ok THEN minted + 1 ELSE minted
           /\ IF a.raised
              THEN /\ got' = [NoGot EXCEPT !.task = r, !.at = time,
                                 !.raised = TRUE, !.held = auth,
                                 !.token = a.auth.token,
                                 !.expires_at = a.auth.expires_at,
                                 !.expiry = reply.expiry]
                   /\ UNCHANGED acq
              ELSE /\ got' = [NoGot EXCEPT !.task = r, !.at = time,
                                 !.returned = TRUE, !.token = a.auth.token,
                                 !.expires_at = a.auth.expires_at,
                                 !.expiry = reply.expiry,
                                 !.expires_in = reply.expires_in]
                   /\ acq' = [valid |-> TRUE, at |-> time,
                              expiry |-> reply.expiry,
                              expires_in |-> reply.expires_in,
                              cleared |-> acq.cleared,
                              token |-> minted + 1]
    /\ task' = [task EXCEPT ![r].pc = "idle"]
    /\ UNCHANGED <<time, ksVars, lkVars>>

CallInvalidate ==
    /\ auth' = Invalidate(auth)
    /\ acq' = [NoAcq EXCEPT !.cleared = TRUE]
    /\ got' = [NoGot EXCEPT !.at = time, !.invalidated = TRUE, !.held = auth,
                   !.asked = Asking]
    /\ UNCHANGED <<time, minted, task, ksVars, lkVars>>

\* Time passes.
TickSteps == {120, 150}

Tick(d) ==
    /\ time + d <= MaxTime
    /\ time' = time + d
    /\ UNCHANGED <<auth, minted, task, got, acq, ksVars, lkVars>>

AuNext ==
    \/ \E r \in Tasks : CallGetToken(r)
    \/ \E r \in Tasks, reply \in TokenReplies : AuthTokenReply(r, reply)
    \/ CallInvalidate
    \/ \E d \in TickSteps : Tick(d)

----------------------------------------------------------------------------
(* client.py: GDPClient.request, called by concurrent tasks (SpecClient)    *)

\* What an attempt brings back: an HTTP status, or NoReply for a timeout or
\* a transport error raised by http.request.
NoReply == 0
Outcomes == {200, 401, 500, NoReply}

\* ShouldRetry on every failure status.
ShouldRetryAnyFailure(status) == status # 200

\* line 54: if resp.status_code == 401
ShouldRetry(status) == status = 401

\* resp.raise_for_status() and the return: what request gives its caller for
\* the outcome of its last attempt, the n-th.
Surface(outcome, n) ==
    [done |-> TRUE, ok |-> outcome = 200, status |-> outcome, attempt |-> n]

\* get_token raised inside request, after n attempts
AcquireFailed(n) == [done |-> TRUE, ok |-> FALSE, status |-> -1, attempt |-> n]

\* Arguments request is called with.
ClientCalls ==
    {[method |-> "get", resource_name |-> "datasource", params |-> "q"],
     [method |-> "POST", resource_name |-> "group", params |-> "b"]}

\* str.upper() on the method names of the model
Upper(m) == IF m = "get" THEN "GET" ELSE IF m = "post" THEN "POST" ELSE m

\* f"{self._config.base_url}/{resource_name}"
Url(resource_name) == <<"base_url", "/", resource_name>>

\* http.request(...), lines 44-51 and 59-66: GET sends the parameters as the
\* query string, every other method as the JSON body.
HttpAttempt(call, token) ==
    [method |-> Upper(call.method), url |-> Url(call.resource_name),
     via |-> IF Upper(call.method) = "GET" THEN "params" ELSE "json",
     params |-> call.params, token |-> token]

\* request, lines 32 and 53-66, up to the first await: get_token returns the
\* cached token and the first attempt is sent, or the token endpoint is
\* asked.
StartRequest(r, call) ==
    /\ task[r].pc = "idle"
    /\ IF TokenIsCached(auth, time)
       THEN task' = [task EXCEPT ![r] = [IdleTask EXCEPT !.pc = "attempt1",
                        !.call = call,
                        !.token = auth.token, !.before = auth.token,
                        !.sent1 = HttpAttempt(call, auth.token),
                        !.attempts = 1]]
       ELSE task' = [task EXCEPT ![r] = [IdleTask EXCEPT !.pc = "acquire1",
                        !.call = call]]
    /\ UNCHANGED <<auth, time, minted, got, acq, ksVars, lkVars>>

\* The token endpoint answers task r: _acquire_token resumes, and if it
\* returns, request sends the attempt it was about to send.
TokenReply(r, reply) ==
    /\ task[r].pc \in {"acquire1", "acquire2"}
    /\ reply.ok => minted < MaxMinted
    /\ LET a == AcquireToken(auth, time, reply, minted + 1)
           n == IF task[r].pc = "acquire1" THEN 1 ELSE 2
       IN  /\ auth' = a.auth
           /\ minted' = IF reply.ok THEN minted + 1 ELSE minted
           /\ IF a.raised
              THEN task' = [task EXCEPT ![r] = [@ EXCEPT !.pc = "done",
                               !.left = a.auth,
                               !.result = AcquireFailed(n - 1)]]
              ELSE task' = [task EXCEPT ![r] = [@ EXCEPT
                               !.pc = IF n = 1 THEN "attempt1" ELSE "attempt2",
                               !.token = a.auth.token,
                               !.before = IF n = 1 THEN a.auth.token ELSE @,
                               !.sent1 = IF n = 1
                                         THEN HttpAttempt(task[r].call, a.auth.token)
                                         ELSE @,
                               !.sent2 = IF n = 2
                                         THEN HttpAttempt(task[r].call, a.auth.token)
                                         ELSE @,
                               !.attempts = n]]
    /\ UNCHANGED <<time, got, acq, ksVars, lkVars>>

\* The first attempt comes back: a 401 invalidates the token and calls
\* get_token again (lines 54-57), anything else is surfaced.
FirstReply(r, outcome) ==
    /\ task[r].pc = "attempt1"
    /\ IF outcome # NoReply /\ ShouldRetry(outcome)
       THEN LET a == Invalidate(auth)
                cached == TokenIsCached(a, time)
            IN  /\ auth' = a
                /\ task' = [task EXCEPT ![r] = [@ EXCEPT !.first = outcome,
                               !.last = outcome,
                               !.pc = IF cached THEN "attempt2" ELSE "acquire2",
                               !.token = IF cached THEN a.token ELSE @,
                               !.mark = minted,
                               !.sent2 = IF cached
                                         THEN HttpAttempt(task[r].call, a.token)
                                         ELSE @,
                               !.attempts = IF cached THEN 2 ELSE @]]
       ELSE /\ task' = [task EXCEPT ![r] = [@ EXCEPT !.first = outcome,
                           !.last = outcome,
                           !.pc = "done", !.result = Surface(outcome, 1)]]
            /\ UNCHANGED auth
    /\ UNCHANGED <<time, minted, got, acq, ksVars, lkVars>>

\* The second attempt comes back and is surfaced, whatever it is
\* (lines 58-68).
SecondReply(r, outcome) ==
    /\ task[r].pc = "attempt2"
    /\ task' = [task EXCEPT ![r] = [@ EXCEPT !.pc = "done",
                                            !.last = outcome,
                                            !.result = Surface(outcome, 2)]]
    /\ UNCHANGED <<auth, time, minted, got, acq, ksVars, lkVars>>

\* The caller has the result; the task is free for another request.
Return(r) ==
    /\ task[r].pc = "done"
    /\ task' = [task EXCEPT ![r] = IdleTask]
    /\ UNCHANGED <<auth, time, minted, got, acq, ksVars, lkVars>>

ClNext ==
    \/ \E r \in Tasks, c \in ClientCalls : StartRequest(r, c)
    \/ \E r \in Tasks, reply \in TokenReplies : TokenReply(r, reply)
    \/ \E r \in Tasks, o \in Outcomes : FirstReply(r, o)
    \/ \E r \in Tasks, o \in Outcomes : SecondReply(r, o)
    \/ \E r \in Tasks : Return(r)
    \/ \E d \in TickSteps : Tick(d)

----------------------------------------------------------------------------
(* Spec: calls of the key store and requests to the gateway, one at a time *)

Threads == 1..NThreads

NoCall == [kind |-> "none", user |-> <<>>, key |-> <<>>, now |-> 0,
           key_prefix |-> <<>>]

\* overlap (observation only): the call began while another thread held the
\* lock.
\* raised: the call ended with an exception.
IdleThread == [pc |-> "idle", call |-> NoCall, store |-> <<>>, target |-> 0,
               result |-> None, overlap |-> FALSE, raised |-> FALSE]

\* No thread is inside the key store.
LkIdle ==
    /\ lock = 0
    /\ th = [t \in Threads |-> IdleThread]
    /\ serial = AbsentFile

KsInit ==
    /\ file = AbsentFile
    /\ hist = [issued |-> {}, named |-> {}, revoked |-> {}]
    /\ resp = [op |-> "init"]
    /\ LkIdle
    /\ TkIdle

\* datetime.now(): the clock has ticked once for each key issued so far.
Clock == Cardinality(hist.issued)

CallGenerateKey(user, raw_key) ==
    /\ CanIssue(raw_key)
    /\ file' = GenerateKey(file, raw_key, user, Clock).file
    /\ hist' = HistGenerate(hist, raw_key, user)
    /\ resp' = [op |-> "generate_key", arg |-> user,
                result |-> GenerateKey(file, raw_key, user, Clock).result]
    /\ UNCHANGED <<lkVars, tkVars>>

CallValidateKey(raw_key) ==
    /\ resp' = [op |-> "validate_key", arg |-> raw_key,
                result |-> ValidateKey(file, raw_key)]
    /\ UNCHANGED <<file, hist, lkVars, tkVars>>

CallListKeys ==
    /\ resp' = [op |-> "list_keys", arg |-> <<>>, result |-> ListKeys(file)]
    /\ UNCHANGED <<file, hist, lkVars, tkVars>>

CallRevokeKey(key_prefix) ==
    /\ file' = RevokeKey(file, key_prefix).file
    /\ hist' = HistRevoke(hist, file, key_prefix)
    /\ resp' = [op |-> "revoke_key", arg |-> key_prefix,
                result |-> RevokeKey(file, key_prefix).result,
                saved |-> RevokeKey(file, key_prefix).saved]
    /\ UNCHANGED <<lkVars, tkVars>>

CallHasAnyKeys ==
    /\ resp' = [op |-> "has_any_keys", arg |-> <<>>, result |-> HasAnyKeys(file)]
    /\ UNCHANGED <<file, hist, lkVars, tkVars>>

\* Strings handed to validate_key directly.
ValidateArgs == KeyPool \cup Creds \cup {HashKey(K1)}

KsNext ==
    \/ \E u \in Users, k \in KeyPool : CallGenerateKey(u, k)
    \/ \E s \in ValidateArgs : CallValidateKey(s)
    \/ CallListKeys
    \/ \E p \in RevokeArgs : CallRevokeKey(p)
    \/ CallHasAnyKeys

\* A request of the set R through APIKeyMiddleware and the route it reaches;
\* raw_key is what secrets.token_hex returns if the route issues a key.
HttpRequest(R, raw_key) ==
    \E req \in R :
        LET r == Dispatch(req, file, raw_key, Clock)
            issues == "generate_key" \in Range(r.ksops)
            revokes == "revoke_key" \in Range(r.ksops)
        IN  /\ issues => CanIssue(raw_key)
            /\ file' = r.file
            /\ hist' = IF issues THEN HistGenerate(hist, raw_key, r.body[1].user)
                       ELSE IF revokes
                            THEN HistRevoke(hist, file, PathParam(req.path))
                            ELSE hist
            /\ resp' = [op |-> "http", req |-> req, status |-> r.status,
                        forwarded |-> r.forwarded, ksops |-> r.ksops,
                        body |-> r.body]
            /\ UNCHANGED <<lkVars, tkVars>>

CreateRequests == {req \in AdminRequests : req.method = "POST"}

GwNext ==
    \/ \E k \in KeyPool : HttpRequest(CreateRequests, k)
    \/ HttpRequest(Requests \ CreateRequests, K1)

vars == <<ksVars, lkVars, tkVars>>

Next == KsNext

Spec == KsInit /\ [][Next]_vars

\* SpecGateway: the same store, reached through HTTP requests only.
SpecGateway == KsInit /\ [][GwNext]_vars

----------------------------------------------------------------------------
(* SpecStore: the key store on any document, with writes that can fail.     *)
(* resp records the call, the document it found and how it ended.           *)

StoreResp(op, arg, o) ==
    [op |-> op, arg |-> arg, before |-> file, result |-> o.result,
     raised |-> o.raised, load_raised |-> o.load_raised,
     save_raised |-> o.save_raised]

\* hist.issued here: the keys secrets.token_hex has returned (line 73), with
\* the user of the call.
StGenerateKey(user, raw_key, fault) ==
    /\ CanIssue(raw_key)
    /\ LET o == TryGenerateKey(file, raw_key, user, Clock, fault)
       IN  /\ file' = o.file
           /\ resp' = [StoreResp("generate_key", user, o) EXCEPT
                          !.arg = [user |-> user, key |-> raw_key]]
    /\ hist' = HistGenerate(hist, raw_key, user)
    /\ UNCHANGED <<lkVars, tkVars>>

StRevokeKey(key_prefix, fault) ==
    /\ LET o == TryRevokeKey(file, key_prefix, fault)
       IN  /\ file' = o.file
           /\ resp' = StoreResp("revoke_key", key_prefix, o)
    /\ UNCHANGED <<hist, lkVars, tkVars>>

StValidateKey(raw_key) ==
    /\ file' = TryValidateKey(file, raw_key).file
    /\ resp' = StoreResp("validate_key", raw_key, TryValidateKey(file, raw_key))
    /\ UNCHANGED <<hist, lkVars, tkVars>>

StListKeys ==
    /\ file' = TryListKeys(file).file
    /\ resp' = StoreResp("list_keys", <<>>, TryListKeys(file))
    /\ UNCHANGED <<hist, lkVars, tkVars>>

StHasAnyKeys ==
    /\ file' = TryHasAnyKeys(file).file
    /\ resp' = StoreResp("has_any_keys", <<>>, TryHasAnyKeys(file))
    /\ UNCHANGED <<hist, lkVars, tkVars>>

StNext ==
    \/ \E u \in Users, k \in KeyPool, w \in SaveFaults : StGenerateKey(u, k, w)
    \/ \E p \in RevokeArgs, w \in SaveFaults : StRevokeKey(p, w)
    \/ \E s \in {K1, K3, <<>>} : StValidateKey(s)
    \/ StListKeys
    \/ StHasAnyKeys

\* Documents the server can find at KEY_STORE_PATH when it starts.
StartFiles ==
    {AbsentFile, MalformedFile, UnreadableFile, NoKeysFile, ArrayFile,
     ScalarFile}

StInit ==
    /\ file \in StartFiles
    /\ hist = [issued |-> {}, named |-> {}, revoked |-> {}]
    /\ resp = [op |-> "init"]
    /\ LkIdle
    /\ TkIdle

SpecStore == StInit /\ [][StNext]_vars

----------------------------------------------------------------------------
(* SpecLock: generate_key and revoke_key called by concurrent threads.      *)
(* A thread is suspended between any two statements; each thread makes one *)
(* call.  SpecLockFair adds validate_key calls and writes that fail, and   *)
(* schedules every thread that can take a step.                            *)

\* LockFree of a lock that excludes nobody.
LockFreeAlways(l) == TRUE

\* threading.Lock.acquire() returns when no thread holds the lock.
LockFree(l) == l = 0

\* A with block that gives the lock back only when its body returns.
WithExitOnReturnOnly(l, raised) == IF raised THEN l ELSE 0

\* The end of "with _lock:": the lock is given back whether the body ran to
\* its end, returned early or raised.
WithExit(l, raised) == 0

\* The call applied to document f in one piece.
ApplyCall(f, c) ==
    IF c.kind = "generate_key" THEN GenerateKey(f, c.key, c.user, c.now).file
    ELSE IF c.kind = "revoke_key" THEN RevokeKey(f, c.key_prefix).file
    ELSE f

\* generate_key, lines 73-76: the key, its digest and prefix and the time
\* are computed before the lock is asked for.
BeginGenerateKey(t, user, raw_key) ==
    /\ th[t].pc = "idle"
    /\ CanIssue(raw_key)
    /\ th' = [th EXCEPT ![t] = [@ EXCEPT !.pc = "acquire",
                 !.overlap = (lock # 0),
                 !.call = [kind |-> "generate_key", user |-> user,
                           key |-> raw_key, now |-> Clock,
                           key_prefix |-> KeyPrefix(raw_key)]]]
    /\ hist' = HistGenerate(hist, raw_key, user)
    /\ UNCHANGED <<file, resp, lock, serial, tkVars>>

BeginRevokeKey(t, key_prefix) ==
    /\ th[t].pc = "idle"
    /\ th' = [th EXCEPT ![t] = [@ EXCEPT !.pc = "acquire",
                 !.overlap = (lock # 0),
                 !.call = [NoCall EXCEPT !.kind = "revoke_key",
                                         !.key_prefix = key_prefix]]]
    /\ UNCHANGED <<file, hist, resp, lock, serial, tkVars>>

\* with _lock:
Acquire(t) ==
    /\ th[t].pc = "acquire"
    /\ LockFree(lock)
    /\ lock' = t
    /\ serial' = ApplyCall(serial, th[t].call)
    /\ th' = [th EXCEPT ![t].pc = "load"]
    /\ UNCHANGED <<file, hist, resp, tkVars>>

\* store = _load_store()
Load(t) ==
    /\ th[t].pc = "load"
    /\ th' = [th EXCEPT ![t] = [@ EXCEPT
                 !.pc = IF th[t].call.kind = "validate_key" THEN "release"
                        ELSE "mutate",
                 !.store = LoadStore(file)]]
    /\ UNCHANGED <<file, hist, resp, lock, serial, tkVars>>

\* generate_key, lines 80-84: store["keys"][hashed] = {...}
MutateGenerate(t) ==
    /\ th[t].pc = "mutate" /\ th[t].call.kind = "generate_key"
    /\ th' = [th EXCEPT ![t] = [@ EXCEPT !.pc = "save",
                 !.store = DictSet(@, HashKey(th[t].call.key),
                              [user |-> th[t].call.user,
                               created |-> th[t].call.now,
                               key_prefix |-> th[t].call.key_prefix])]]
    /\ UNCHANGED <<file, hist, resp, lock, serial, tkVars>>

\* revoke_key, lines 135-146: the scan; no match leaves the with block with
\* return None, a match is deleted from the local store.
MutateRevoke(t) ==
    /\ th[t].pc = "mutate" /\ th[t].call.kind = "revoke_key"
    /\ LET i == RevokeTarget(th[t].store, th[t].call.key_prefix)
       IN  IF i = 0
           THEN /\ th' = [th EXCEPT ![t] = [@ EXCEPT !.pc = "done",
                                                     !.result = None]]
                /\ lock' = WithExit(lock, FALSE)
           ELSE /\ th' = [th EXCEPT ![t] = [@ EXCEPT !.pc = "save",
                             !.target = i,
                             !.result = Some([status |-> "revoked",
                                 key_prefix |-> th[t].call.key_prefix,
                                 user |-> th[t].store[i].meta.user]),
                             !.store = DictDel(@, i)]]
                /\ UNCHANGED lock
    /\ UNCHANGED <<file, hist, resp, serial, tkVars>>

\* _save_store(store)
Save(t) ==
    /\ th[t].pc = "save"
    /\ file' = SaveStore(th[t].store)
    /\ th' = [th EXCEPT ![t].pc = "release"]
    /\ UNCHANGED <<hist, resp, lock, serial, tkVars>>

\* the end of the with block, and the return; validate_key looks the
\* digest up after the block.
Release(t) ==
    /\ th[t].pc = "release"
    /\ lock' = WithExit(lock, FALSE)
    /\ th' = [th EXCEPT ![t] = [@ EXCEPT
                 !.pc = IF th[t].call.kind = "validate_key" THEN "lookup"
                        ELSE "done",
                 !.result = IF th[t].call.kind = "generate_key"
                            THEN Some([key |-> th[t].call.key,
                                       user |-> th[t].call.user,
                                       created |-> th[t].call.now,
                                       key_prefix |-> th[t].call.key_prefix])
                            ELSE @]]
    /\ UNCHANGED <<file, hist, resp, serial, tkVars>>

LkNext ==
    \/ \E t \in Threads, u \in Users, k \in KeyPool : BeginGenerateKey(t, u, k)
    \/ \E t \in Threads, p \in RevokeArgs : BeginRevokeKey(t, p)
    \/ \E t \in Threads : Acquire(t)
    \/ \E t \in Threads : Load(t)
    \/ \E t \in Threads : MutateGenerate(t)
    \/ \E t \in Threads : MutateRevoke(t)
    \/ \E t \in Threads : Save(t)
    \/ \E t \in Threads : Release(t)

\* The store the threads start on: absent, or holding K1 issued earlier.
LkInit ==
    /\ \/ /\ file = AbsentFile
          /\ hist = [issued |-> {}, named |-> {}, revoked |-> {}]
       \/ /\ file = GenerateKey(AbsentFile, K1, <<"u">>, 0).file
          /\ hist = [issued |-> {[key |-> K1, user |-> <<"u">>]},
                     named |-> {}, revoked |-> {}]
    /\ resp = [op |-> "init"]
    /\ lock = 0
    /\ th = [t \in Threads |-> IdleThread]
    /\ serial = file
    /\ TkIdle

SpecLock == LkInit /\ [][LkNext]_vars

LockValidateArgs == {K1, <<>>}

\* validate_key, lines 102-105: an empty key returns None before the lock is
\* asked for; otherwise the digest is computed and the lock asked for.
BeginValidateKey(t, raw_key) ==
    /\ th[t].pc = "idle"
    /\ th' = [th EXCEPT ![t] = [@ EXCEPT
                 !.pc = IF raw_key = <<>> THEN "done" ELSE "acquire",
                 !.overlap = (lock # 0),
                 !.call = [NoCall EXCEPT !.kind = "validate_key",
                                         !.key = raw_key]]]
    /\ UNCHANGED <<file, hist, resp, lock, serial, tkVars>>

\* validate_key, lines 110-113: the lookup in the store loaded under the
\* lock, made after the lock was given back.
Lookup(t) ==
    /\ th[t].pc = "lookup"
    /\ th' = [th EXCEPT ![t] = [@ EXCEPT !.pc = "done",
                 !.result = DictGet(th[t].store, HashKey(th[t].call.key))]]
    /\ UNCHANGED <<file, hist, resp, lock, serial, tkVars>>

\* _save_store(store) raises (open, write or chmod fails): the exception
\* leaves the with block and the call.
SaveFails(t, fault) ==
    /\ th[t].pc = "save"
    /\ fault # "none"
    /\ file' = SaveStoreOutcome(file, th[t].store, fault).file
    /\ lock' = WithExit(lock, TRUE)
    /\ th' = [th EXCEPT ![t] = [@ EXCEPT !.pc = "done", !.result = None,
                                         !.raised = TRUE]]
    /\ UNCHANGED <<hist, resp, serial, tkVars>>

LfNext ==
    \/ LkNext
    \/ \E t \in Threads, k \in LockValidateArgs : BeginValidateKey(t, k)
    \/ \E t \in Threads : Lookup(t)
    \/ \E t \in Threads, fault \in SaveFaults : SaveFails(t, fault)

\* What a thread inside a key-store call does when it is scheduled.
ThreadStep(t) ==
    \/ Acquire(t) \/ Load(t) \/ MutateGenerate(t) \/ MutateRevoke(t)
    \/ Save(t) \/ Release(t) \/ Lookup(t)
    \/ \E fault \in SaveFaults : SaveFails(t, fault)

\* Every thread that can take a step of its call is scheduled in the end;
\* nothing obliges a thread to begin a call.
SpecLockFair ==
    LkInit /\ [][LfNext]_vars /\ \A t \in Threads : WF_vars(ThreadStep(t))

\* SpecAuth: GDPAuth called directly; SpecClient: GDPClient.request tasks.
SpecAuth == KsInit /\ [][AuNext]_vars

SpecClient == KsInit /\ [][ClNext]_vars

----------------------------------------------------------------------------
(* Properties of the key store (Spec) *)

\* C1: once generate_key(u) has returned the raw key R, validate_key(R)
\* returns a record whose user is u, whatever generate_key, validate_key,
\* list_keys and has_any_keys calls came in between, and whatever revoke_key
\* calls whose argument is not the 8-character prefix of R.
C1_RoundTrip ==
    /\ \A k \in IssuedKeys \ hist.named :
          /\ ValidateKey(file, k) # None
          /\ ValidateKey(file, k)[1].user = IssuedUser(k)
    /\ (resp.op = "validate_key" /\ resp.arg \in IssuedKeys \ hist.named)
          => (resp.result # None /\ resp.result[1].user = IssuedUser(resp.arg))

\* K1 validates for its user after K3 was issued and revoked in between.
C1_Witness ==
    /\ resp.op = "validate_key" /\ resp.arg = K1
    /\ K1 \in IssuedKeys /\ K1 \notin hist.named
    /\ K3 \in hist.revoked
    /\ resp.result # None /\ resp.result[1].user = <<"u">>

\* C2: after revoke_key(prefix) has returned a revoked record, validate_key
\* returns none for every raw key whose first 8 characters are that prefix,
\* and list_keys() has no entry with that key_prefix (stated of the store the
\* call leaves, which every later call loads).
C2_RevokedPrefixGone ==
    (resp.op = "revoke_key" /\ resp.result # None) =>
        /\ \A k \in KeyPool :
              KeyPrefix(k) = resp.arg => ValidateKey(file, k) = None
        /\ \A i \in 1..Len(ListKeys(file)) :
              ListKeys(file)[i].key_prefix # resp.arg

\* C3: validate_key returns none for the empty string and for every string
\* that no generate_key call has returned.
C3_UnknownKeyRejected ==
    /\ \A s \in ValidateArgs \ IssuedKeys : ValidateKey(file, s) = None
    /\ (resp.op = "validate_key" /\ resp.arg \notin IssuedKeys)
          => resp.result = None

\* K2 was never issued; K1, which shares its prefix, is in the store.
C3_Witness ==
    /\ resp.op = "validate_key" /\ resp.arg = K2 /\ resp.result = None
    /\ K2 \notin IssuedKeys
    /\ ValidateKey(file, K1) # None

\* C11: a revoke_key call whose prefix matches no record returns none,
\* calls no _save_store and leaves the document as it was; the same call
\* made again returns none again and leaves the same document.
C11_UnknownPrefixNoOp ==
    [][/\ (resp'.op = "revoke_key" /\ resp'.result = None) =>
              (file' = file /\ ~resp'.saved)
       /\ (resp.op = "revoke_key" /\ resp.result = None
              /\ resp'.op = "revoke_key" /\ resp'.arg = resp.arg) =>
              (resp'.result = None /\ file' = file /\ ~resp'.saved)]_vars

\* K1 is stored; revoke_key with the prefix of K3, which was never issued,
\* returned none and the record of K1 is still there.
C11_Witness ==
    /\ resp.op = "revoke_key" /\ resp.arg = KeyPrefix(K3)
    /\ resp.result = None /\ ~resp.saved
    /\ K3 \notin IssuedKeys
    /\ ValidateKey(file, K1) # None

\* C12: for every reachable store, list_keys() returns one element per
\* stored record, each with the fields key_prefix, user and created and no
\* other, and none of them holds a digest or a full raw key.
C12_ListKeysMasked ==
    LET listed == ListKeys(file)
    IN  /\ Len(listed) = Len(LoadStore(file))
        /\ \A i \in 1..Len(listed) :
              /\ DOMAIN listed[i] = {"key_prefix", "user", "created"}
              /\ listed[i].key_prefix \notin Hashes(file) \cup IssuedKeys
              /\ listed[i].user \notin Hashes(file) \cup IssuedKeys
              /\ Len(listed[i].key_prefix) < KeyLen
              /\ listed[i].created \in Nat
        /\ resp.op = "list_keys" => resp.result = listed

\* list_keys() returned two elements for a store of two records.
C12_Witness ==
    /\ resp.op = "list_keys" /\ Len(resp.result) = 2
    /\ Len(LoadStore(file)) = 2 /\ Cardinality(IssuedKeys) = 2

\* The fields of a returned record that hold text.
HoldsRawKey(rec, fields) == \E fld \in fields : rec[fld] \in KeyPool

\* C19: in every reachable store no mapping key and no field of a record is
\* a full raw key: each record is stored under the digest of an issued key
\* and holds that key's first 8 characters; and only generate_key returns a
\* full raw key, that of the record it has just added.
C19_RawKeyOnlyReturnedOnce ==
    /\ \A i \in 1..Len(LoadStore(file)) :
          LET e == LoadStore(file)[i]
          IN  /\ e.hash \notin KeyPool
              /\ DOMAIN e.meta = {"user", "created", "key_prefix"}
              /\ ~HoldsRawKey(e.meta, {"user", "key_prefix"})
              /\ \E k \in IssuedKeys :
                    /\ e.hash = HashKey(k)
                    /\ e.meta.key_prefix = SubSeq(k, 1, 8)
    /\ resp.op = "generate_key" =>
          /\ resp.result.key \in IssuedKeys
          /\ LoadStore(file)[Len(LoadStore(file))].hash = HashKey(resp.result.key)
          /\ Cardinality({i \in 1..Len(LoadStore(file)) :
                             LoadStore(file)[i].hash = HashKey(resp.result.key)}) = 1
    /\ (resp.op = "validate_key" /\ resp.result # None) =>
          /\ DOMAIN resp.result[1] = {"user", "created", "key_prefix"}
          /\ ~HoldsRawKey(resp.result[1], {"user", "key_prefix"})
    /\ resp.op = "list_keys" =>
          \A i \in 1..Len(resp.result) :
              /\ DOMAIN resp.result[i] = {"user", "created", "key_prefix"}
              /\ ~HoldsRawKey(resp.result[i], {"user", "key_prefix"})
    /\ (resp.op = "revoke_key" /\ resp.result # None) =>
          /\ DOMAIN resp.result[1] = {"status", "key_prefix", "user"}
          /\ ~HoldsRawKey(resp.result[1], {"user", "key_prefix"})
    /\ resp.op = "has_any_keys" => resp.result \in BOOLEAN

\* generate_key has just returned K3, the second key of the store.
C19_Witness ==
    /\ resp.op = "generate_key" /\ resp.result.key = K3
    /\ Len(LoadStore(file)) = 2
    /\ LoadStore(file)[2].hash = HashKey(K3)
    /\ LoadStore(file)[2].meta.key_prefix = SubSeq(K3, 1, 8)

\* C23: a revoke_key call that returns a record removes exactly one record,
\* the first in store order whose key_prefix is the argument, and leaves
\* every other record as it was; a generate_key call adds exactly one record
\* and leaves every other as it was; no other call changes a record.
C23_OneRecordAtATime ==
    [][LET old == LoadStore(file)
           new == LoadStore(file')
       IN  /\ (resp'.op = "revoke_key" /\ resp'.result # None) =>
                 \E i \in 1..Len(old) :
                     /\ old[i].meta.key_prefix = resp'.arg
                     /\ \A j \in 1..(i - 1) : old[j].meta.key_prefix # resp'.arg
                     /\ resp'.result[1].user = old[i].meta.user
                     /\ Len(new) = Len(old) - 1
                     /\ \A j \in 1..Len(new) :
                           new[j] = IF j < i THEN old[j] ELSE old[j + 1]
           /\ resp'.op = "generate_key" =>
                 /\ Len(new) = Len(old) + 1
                 /\ \A j \in 1..Len(old) : new[j] = old[j]
                 /\ new[Len(new)].hash = HashKey(resp'.result.key)
                 /\ new[Len(new)].meta = [user |-> resp'.result.user,
                                          created |-> resp'.result.created,
                                          key_prefix |-> resp'.result.key_prefix]
           /\ (resp'.op \notin {"generate_key", "revoke_key"}
                  \/ (resp'.op = "revoke_key" /\ resp'.result = None)) =>
                 new = old]_vars

\* K1 and K2, which share their prefix, were both stored; revoke_key with
\* that prefix removed the one stored first and the other is still there.
C23_Witness ==
    /\ resp.op = "revoke_key" /\ resp.result # None
    /\ resp.arg = KeyPrefix(K1)
    /\ \E a \in {K1, K2}, b \in {K1, K2} :
          /\ a # b
          /\ hist.revoked = {a}
          /\ {a, b} \subseteq IssuedKeys
          /\ Len(LoadStore(file)) = 1
          /\ LoadStore(file)[1].hash = HashKey(b)
          /\ resp.result[1].user = IssuedUser(a)

----------------------------------------------------------------------------
(* Properties of the key store on any document (SpecStore) *)

\* C13: when _save_store fails inside generate_key or revoke_key, the call
\* raises and did not take effect: the store every later call loads is the
\* store as it was before the call, so the key being issued does not
\* validate and the key being revoked does.  Violated: a write that fails
\* after open(path, "w") leaves truncated text, which loads as the empty
\* store; a chmod that fails leaves the new store written.
C13_FailedWriteNoEffect ==
    (resp.op \in {"generate_key", "revoke_key"} /\ resp.save_raised) =>
        /\ resp.raised
        /\ LoadStore(file) = LoadStore(resp.before)
        /\ resp.op = "generate_key" => ValidateKey(file, resp.arg.key) = None
        /\ \A k \in KeyPool :
              ValidateKey(resp.before, k) # None => ValidateKey(file, k) # None

\* C14: _load_store never raises: whatever the document is, every key-store
\* call completes its load step, and a document that is not the expected
\* object is treated as the empty store.  Violated: a document holding a JSON
\* array, null or number makes _load_store raise TypeError.
C14_LoadNeverRaises ==
    resp.op # "init" =>
        /\ ~resp.load_raised
        /\ resp.before.kind # "object" =>
              /\ resp.op = "list_keys" => resp.result = <<>>
              /\ resp.op = "has_any_keys" => resp.result = FALSE
              /\ resp.op \in {"validate_key", "revoke_key"} => resp.result = None

\* C24: validate_key, list_keys and has_any_keys never write: the document
\* after the call is the document before it, whatever it was - an absent or
\* malformed document stays absent or malformed - and whatever the argument;
\* has_any_keys returns true exactly when the store it loaded has a record.
C24_ReadOnlyCallsWriteNothing ==
    resp.op \in {"validate_key", "list_keys", "has_any_keys"} =>
        /\ file = resp.before
        /\ ~resp.save_raised
        /\ (resp.op = "has_any_keys" /\ ~resp.raised) =>
              (resp.result <=> Len(LoadStore(resp.before)) >= 1)

\* has_any_keys found truncated text left by a failed write, returned false
\* and left the text as it was.
C24_Witness ==
    /\ resp.op = "has_any_keys" /\ ~resp.raised /\ resp.result = FALSE
    /\ resp.before = MalformedFile /\ file = MalformedFile
    /\ IssuedKeys # {}

----------------------------------------------------------------------------
(* Properties of the gateway (SpecGateway) *)

IsHealthRoute(req) == req.path = HealthPath
UnderAdminPrefix(req) == StartsWith(req.path, <<"/admin">>)

\* C4: a request whose path is neither the health route nor under the admin
\* prefix is forwarded iff validate_key, given the Authorization header
\* without its "Bearer " prefix and surrounding whitespace, returns a record:
\* iff that credential is an issued key whose record has not been removed.
\* Otherwise the answer is 401 and the request is not forwarded; a revoked key
\* is rejected.
C4_ProtectedIffValidKey ==
    (resp.op = "http" /\ ~IsHealthRoute(resp.req) /\ ~UnderAdminPrefix(resp.req)) =>
        LET cred == Strip(RemovePrefix(resp.req.auth, Bearer))
        IN  /\ resp.forwarded <=> ValidateKey(file, cred) # None
            /\ resp.forwarded <=> cred \in IssuedKeys \ hist.revoked
            /\ ~resp.forwarded => resp.status = 401
            /\ resp.forwarded => resp.status # 401
            /\ cred \in hist.revoked => (~resp.forwarded /\ resp.status = 401)

\* A key that was issued and then revoked is presented and answered 401.
C4_Witness ==
    /\ resp.op = "http" /\ resp.req.path = SsePath
    /\ resp.req.auth = Bearer \o K1 \o <<" ">>
    /\ K1 \in hist.revoked
    /\ resp.status = 401 /\ ~resp.forwarded

C5_WitnessAdmitted ==
    /\ resp.op = "http" /\ resp.req.path = AdminKeysPath
    /\ resp.req.host = "172.17.0.1" /\ resp.req.auth = <<>>
    /\ resp.status = 201

\* C17: on a protected route a request whose Authorization header does not
\* start with "Bearer " is answered 401 and not forwarded.  Violated:
\* removeprefix leaves such a header as it is, so a header that is just an
\* issued key validates.
C17_SchemeRequired ==
    (resp.op = "http" /\ ~IsHealthRoute(resp.req) /\ ~UnderAdminPrefix(resp.req)
        /\ ~StartsWith(resp.req.auth, <<"Bearer ">>)) =>
        (resp.status = 401 /\ ~resp.forwarded)

\* C20: a request to /health is forwarded without a validate_key call,
\* whatever its Authorization header (none included), whatever its address
\* and whatever the store holds.
C20_HealthAlwaysAdmitted ==
    (resp.op = "http" /\ resp.req.path = <<"/health">>) =>
        /\ resp.forwarded
        /\ "validate_key" \notin Range(resp.ksops)
        /\ resp.status = 200

\* /health is asked with a key that was never issued while the store holds
\* a record.
C20_Witness ==
    /\ resp.op = "http" /\ resp.req.path = <<"/health">>
    /\ resp.req.auth = Bearer \o Rep("f", KeyLen)
    /\ resp.req.host = NoClient
    /\ HasAnyKeys(file)
    /\ resp.forwarded /\ resp.status = 200

----------------------------------------------------------------------------
(* Properties of the lock (SpecLock) *)

AllDone == \A t \in Threads : th[t].pc = "done"

GenerateCalls == {t \in Threads : th[t].call.kind = "generate_key"}

\* C10: no lost update.  Whenever the lock is free, the persisted store is
\* the store obtained by applying, one at a time and in the order in which
\* they took the lock, the calls that have taken it; so when all calls have
\* returned the store is a serial outcome, and when all of them are
\* generate_key calls every new record is present.
C10_NoLostUpdate ==
    /\ lock = 0 => file = serial
    /\ (AllDone /\ GenerateCalls = Threads) =>
          /\ \A t \in Threads : HashKey(th[t].call.key) \in Hashes(file)
          /\ Len(LoadStore(file)) = Cardinality(IssuedKeys)

\* All calls were generate_key calls, one of them began while another
\* thread held the lock, and every record is stored.
C10_Witness ==
    /\ AllDone /\ GenerateCalls = Threads
    /\ \E t \in Threads : th[t].overlap
    /\ Len(LoadStore(file)) = NThreads
    /\ \A t \in Threads : HashKey(th[t].call.key) \in Hashes(file)

\* C25: the lock is always given back.  A thread outside a with block -
\* before it asks for the lock, after its call returned, returned None
\* early or raised on a failed write - never holds the lock, and under fair
\* scheduling every call that was started completes.
C25_LockAlwaysReleased ==
    /\ [](/\ lock \in {0} \cup Threads
          /\ \A t \in Threads :
                th[t].pc \in {"idle", "acquire", "lookup", "done"} => lock # t)
    /\ \A t \in Threads : (th[t].pc # "idle") ~> (th[t].pc = "done")

\* A generate_key call raised on a failed write; the call that began while
\* it held the lock then took the lock and returned its key; the lock is
\* free.
C25_Witness ==
    /\ lock = 0
    /\ \E t, u \in Threads :
          /\ t # u
          /\ th[t].pc = "done" /\ th[t].raised
          /\ th[t].call.kind = "generate_key"
          /\ th[u].pc = "done" /\ th[u].overlap /\ ~th[u].raised
          /\ th[u].call.kind = "generate_key" /\ th[u].result # None

----------------------------------------------------------------------------
(* Properties of GDPClient.request (SpecClient) *)

\* C6: a request call sends at most two HTTP attempts; a second one only
\* when the first came back 401; and what the last attempt brought back,
\* another 401 included, is what the caller gets, with no third attempt.
C6_AtMostTwoAttempts ==
    \A r \in Tasks :
        /\ task[r].attempts <= 2
        /\ task[r].attempts = 2 => task[r].first = 401
        /\ task[r].pc = "attempt2" => task[r].attempts = 2
        /\ (task[r].pc = "done" /\ task[r].attempts = 2
                /\ task[r].result.attempt = 2) =>
              /\ task[r].result.status = task[r].last
              /\ task[r].result.ok <=> task[r].last = 200

\* Both attempts came back 401 and the second 401 went to the caller.
C6_Witness ==
    \E r \in Tasks :
        /\ task[r].pc = "done" /\ task[r].attempts = 2
        /\ task[r].first = 401 /\ task[r].last = 401
        /\ task[r].result = [done |-> TRUE, ok |-> FALSE, status |-> 401,
                             attempt |-> 2]

\* C7: when the first attempt came back 401 and the second succeeded,
\* request returns the second attempt's success, and the token cached
\* afterwards is not the token the cycle began with.
C7_RetrySucceedsWithNewToken ==
    \A r \in Tasks :
        (task[r].pc = "done" /\ task[r].first = 401 /\ task[r].attempts = 2
            /\ task[r].last = 200) =>
            /\ task[r].result = [done |-> TRUE, ok |-> TRUE, status |-> 200,
                                 attempt |-> 2]
            /\ task[r].before # NoToken
            /\ auth.token # task[r].before
            /\ task[r].token # task[r].before

\* The cycle ran alone: token 1 before it, token 2 cached after it.
C7_Witness ==
    \E r \in Tasks :
        /\ task[r].pc = "done" /\ task[r].first = 401 /\ task[r].last = 200
        /\ task[r].result.ok /\ task[r].result.attempt = 2
        /\ task[r].before = 1 /\ auth.token = 2
        /\ \A q \in Tasks \ {r} : task[q].pc = "idle"

\* C16: a first attempt that comes back with a failure status other than
\* 401, or that times out, ends the call: one attempt was made, the failure
\* goes to the caller, invalidate is not called and the cached token and
\* expiry stay as they were; a second get_token or attempt is only ever
\* reached from a 401.
C16_OtherFailureNotRetried ==
    [][\A r \in Tasks :
          /\ (task[r].pc = "attempt1" /\ task'[r].pc # "attempt1"
                 /\ task'[r].first \in {500, NoReply}) =>
                /\ task'[r].pc = "done"
                /\ task'[r].attempts = 1
                /\ task'[r].result = [done |-> TRUE, ok |-> FALSE,
                                      status |-> task'[r].first, attempt |-> 1]
                /\ auth' = auth
          /\ task'[r].pc \in {"acquire2", "attempt2"} => task'[r].first = 401]_vars

\* The first attempt came back 500 and went to the caller; the token it
\* carried is still cached.
C16_Witness ==
    \E r \in Tasks :
        /\ task[r].pc = "done" /\ task[r].attempts = 1 /\ task[r].first = 500
        /\ task[r].result = [done |-> TRUE, ok |-> FALSE, status |-> 500,
                             attempt |-> 1]
        /\ auth.token = task[r].token /\ auth.token # NoToken
        /\ TokenIsCached(auth, time)

\* C21: when the first attempt comes back 401, request calls invalidate, then
\* starts an acquisition, and only when that acquisition has returned sends
\* the retry; the retry carries the token that acquisition returned - a
\* token the endpoint issued after the 401 - and has the method, URL and
\* parameters of the first attempt, whatever other tasks do to the same
\* GDPAuth in between.
C21_RecoveryOrder ==
    [][\A r \in Tasks :
          /\ (task[r].pc = "attempt1" /\ task'[r].pc # "attempt1"
                 /\ task'[r].first = 401) =>
                /\ auth' = [token |-> NoToken, expires_at |-> 0]
                /\ task'[r].pc = "acquire2"
                /\ task'[r].attempts = 1
                /\ task'[r].sent2 = NoAttempt
          /\ (task[r].pc # "attempt2" /\ task'[r].pc = "attempt2") =>
                /\ task[r].pc = "acquire2"
                /\ task'[r].first = 401
                /\ task'[r].attempts = 2
                /\ minted' = minted + 1
                /\ task'[r].sent2.token = minted'
                /\ task'[r].sent2.token > task'[r].mark
                /\ task'[r].sent2.token # task'[r].sent1.token
                /\ task'[r].sent2.method = task'[r].sent1.method
                /\ task'[r].sent2.url = task'[r].sent1.url
                /\ task'[r].sent2.via = task'[r].sent1.via
                /\ task'[r].sent2.params = task'[r].sent1.params]_vars

\* Two requests shared token 1 and both came back 401; the second invalidate
\* came while the first task's acquisition was in flight; its retry carries
\* token 2.
C21_Witness ==
    \E r \in Tasks, q \in Tasks :
        /\ task[r].pc = "attempt2" /\ task[r].first = 401
        /\ task[r].sent1.token = 1 /\ task[r].sent2.token = 2
        /\ task[r].sent2.method = "GET" /\ task[r].sent2.via = "params"
        /\ task[q].pc = "acquire2" /\ task[q].sent1.token = 1
        /\ task[q].mark = 1

----------------------------------------------------------------------------
(* Properties of GDPAuth (SpecAuth) *)

\* The expiry an acquisition read from the reply: 300 when the reply names
\* none.
ReportedExpiry(expiry, expires_in) == IF expiry = "absent" THEN 300 ELSE expires_in

\* C8: if an acquisition completed at time T with expires_in = E (300 when
\* the reply has no expiry field) and no invalidate came since, a get_token
\* call at a time t < T + E - 30 returns the cached token without asking the
\* token endpoint, and a call at t >= T + E - 30 asks the token endpoint.
C8_CachingWindow ==
    (got.called /\ got.acq.valid) =>
        LET E == ReportedExpiry(got.acq.expiry, got.acq.expires_in)
        IN  /\ got.at < got.acq.at + E - 30 =>
                  (got.cached /\ got.returned /\ got.token # NoToken)
            /\ got.at >= got.acq.at + E - 30 => (~got.cached /\ ~got.returned)

\* A reply without expiry field at time 0; the call at 150 is served from
\* the cache.
C8_Witness ==
    /\ got.called /\ got.acq.valid /\ got.acq.expiry = "absent"
    /\ got.acq.at = 0 /\ got.at = 150 /\ got.cached

\* The same acquisition; the call at 270 asks the token endpoint.
C8_WitnessExpired ==
    /\ got.called /\ got.acq.valid /\ got.acq.expiry = "absent"
    /\ got.acq.at = 0 /\ got.at = 270 /\ ~got.cached

\* C9: every get_token call that returns a token at time t has
\* t < the _expires_at stored with the token, whatever expiry the endpoint
\* reported.  Violated: a token acquired at time T from a reply with
\* expires_in = 10 is returned at T with _expires_at = T - 20.
C9_NeverPastExpiry == got.returned => got.at < got.expires_at

\* What get_token does guarantee: a call served from the cache at time t has
\* t < _expires_at; a call that acquired returns the new token at the time T
\* of the acquisition with _expires_at = T + E - 30, which is later than T
\* only when E > 30.
CachedNeverPastExpiry ==
    got.returned =>
        /\ got.token # NoToken
        /\ got.cached => got.at < got.expires_at
        /\ ~got.cached =>
              LET E == ReportedExpiry(got.expiry, got.expires_in)
              IN  /\ got.expires_at = got.at + E - 30
                  /\ got.at < got.expires_at <=> E > 30

\* C15: when an acquisition inside get_token fails - network error, non-2xx
\* status, no access_token, malformed expires_in - the call raises and the
\* cached (token, expiresAt) pair is the pair _acquire_token found.  Violated:
\* a reply whose expires_in is a string stores the new token (line 46) and
\* then raises TypeError at line 47, leaving the old _expires_at.
C15_FailedAcquireKeepsPair ==
    got.raised =>
        [token |-> got.token, expires_at |-> got.expires_at] = got.held

C22_PairFromLastAcquisition ==
    \/ auth = [token |-> NoToken, expires_at |-> 0]
    \/ /\ acq.valid
       /\ auth.token = acq.token
       /\ auth.expires_at =
              acq.at + ReportedExpiry(acq.expiry, acq.expires_in) - 30

\* C26: when get_token raises inside the 401 cycle, request raises that
\* failure with one attempt sent and no second one, and the failed
\* acquisition leaves GDPAuth as invalidate left it: no token, expiry 0.
C26_FailedReacquireLeavesInvalidated ==
    \A r \in Tasks :
        (task[r].pc = "done" /\ task[r].first = 401
            /\ task[r].result = AcquireFailed(1)) =>
          /\ task[r].attempts = 1
          /\ task[r].sent2 = NoAttempt
          /\ task[r].left = [token |-> NoToken, expires_at |-> 0]

====
